---------------------------- MODULE Spec2Model ----------------------------
(***************************************************************************)
(* ConvexHull (QuickHull over a half-edge mesh), src/unnamed/part_000      *)
(* lines 1987-2694.                                                        *)
(*                                                                         *)
(* Arithmetic.  Input points have small integer coordinates.  A face keeps *)
(* the un-normalised normal N = (a-c) x (b-c) and nn = N.N; the unit       *)
(* normal of the code is N/sqrt(nn) (the zero vector when nn = 0).  A      *)
(* signed distance is kept as a pair [num, nn] that stands for the real    *)
(* number num / (3*sqrt(nn)), and 0 when nn = 0.  Comparisons are carried  *)
(* out exactly by cross multiplication: the model is the code over the     *)
(* reals, IEEE rounding is not modelled.                                   *)
(*                                                                         *)
(* Tolerance.  this.tolerance is 3 * Number.EPSILON * S, S the sum of the  *)
(* per-axis largest absolute coordinates.  The variable tolerance holds S  *)
(* (and -1 for the constructor's value -1).  On the integer grid used here *)
(* a positive distance is at least 1/sqrt(nn) >= 1/sqrt(3*32*32) > 0.01,   *)
(* while 1000 * tolerance <= 1000 * 3 * 2^-52 * 12 < 10^-11, so            *)
(* distance > k * tolerance (k = 1, 1000) is decided by distance > 0.      *)
(***************************************************************************)
EXTENDS Integers, Sequences, FiniteSets, TLC

(* ------------------------------ bounds --------------------------------- *)
MaxPts == 5

(* how many times setFromPoints is called on one instance *)
MaxBuilds == 2

(* the most renderCallback requests the animation-frame callback list holds *)
MaxPending == 5

(* The points of the short inputs: three corners of a triangle, so that    *)
(* every short input is too short, coincident, collinear or coplanar.      *)
PointPool ==
  { <<0, 0, 0>>, <<4, 0, 0>>, <<0, 4, 0>> }

RECURSIVE SeqsUpTo(_, _)
SeqsUpTo(S, n) ==
  IF n = 0 THEN { <<>> }
  ELSE LET R == SeqsUpTo(S, n - 1)
       IN  R \cup { Append(s, x) : s \in { r \in R : Len(r) = n - 1 }, x \in S }

(* all orders of a point sequence *)
Perms(s) ==
  LET n == Len(s)
      inj == { f \in [1..n -> 1..n] : \A i, j \in 1..n : f[i] = f[j] => i = j }
  IN  { [i \in 1..n |-> s[f[i]]] : f \in inj }

(* the cyclic shifts of a point sequence and of its reverse *)
Rotations(s) ==
  LET n == Len(s)
      rev == [i \in 1..n |-> s[n + 1 - i]]
  IN  { [i \in 1..n |-> s[((i - 1 + k) % n) + 1]] : k \in 0..(n - 1) }
      \cup { [i \in 1..n |-> rev[((i - 1 + k) % n) + 1]] : k \in 0..(n - 1) }

(* all orders of the first k points of a sequence, the rest following *)
FrontPerms(s, k) ==
  { p \o SubSeq(s, k + 1, Len(s)) : p \in Perms(SubSeq(s, 1, k)) }

(* a point sequence backwards *)
Reverse(s) == [i \in 1..Len(s) |-> s[Len(s) + 1 - i]]

(* the orders a scenario is given in: its cyclic shifts forwards and       *)
(* backwards, and all orders of its first four and of its last four points *)
Orders(s) == Rotations(s) \cup FrontPerms(s, 4) \cup FrontPerms(Reverse(s), 4)

(* the corners of a tetrahedron *)
Tetrahedron ==
  << <<0, 0, 0>>, <<4, 0, 0>>, <<0, 4, 0>>, <<0, 0, 4>> >>

(* the same with the first corner given twice *)
TetrahedronTwice == Tetrahedron \o << <<0, 0, 0>> >>

(* six vertices, four of them coplanar in three ways *)
Octahedron ==
  << <<2, 0, 0>>, <<-2, 0, 0>>, <<0, 2, 0>>, <<0, -2, 0>>, <<0, 0, 2>>, <<0, 0, -2>> >>

(* a tetrahedron and two points outside the same face, one hiding the other *)
Spike ==
  << <<0, 0, 0>>, <<4, 0, 0>>, <<0, 4, 0>>, <<0, 0, 4>>, <<2, 2, 2>>, <<4, 4, 4>> >>

(* the corners of an axis-aligned cube *)
Cube ==
  << <<0, 0, 0>>, <<4, 0, 0>>, <<0, 4, 0>>, <<4, 4, 0>>,
     <<0, 0, 4>>, <<4, 0, 4>>, <<0, 4, 4>>, <<4, 4, 4>> >>

(* the cube with its centre given twice *)
CubeCentre == Cube \o << <<2, 2, 2>>, <<2, 2, 2>> >>

(* a tetrahedron and a point that sees two of its faces *)
Wedge ==
  << <<0, 0, 0>>, <<4, 0, 0>>, <<0, 4, 0>>, <<0, 0, 4>>, <<3, 3, -1>> >>

(* a tetrahedron and a point inside it, given twice *)
Inside ==
  << <<0, 0, 0>>, <<4, 0, 0>>, <<0, 4, 0>>, <<0, 0, 4>>, <<1, 1, 1>>, <<1, 1, 1>> >>

(* a tetrahedron, a point above one face, and a point that sees every face *)
(* around the first once that is on the hull                               *)
Buried ==
  << <<-3, 0, 0>>, <<3, 0, 0>>, <<0, 4, 0>>, <<0, 0, 4>>, <<-1, 2, 1>>, <<0, 3, 2>> >>

(* a tetrahedron and a point coplanar with three of its corners, outside a *)
(* fourth face: a pyramid over a square                                    *)
Pyramid ==
  << <<0, 0, 0>>, <<4, 0, 0>>, <<0, 4, 0>>, <<0, 0, 4>>, <<4, 4, 0>> >>

(* the square alone *)
Square ==
  << <<0, 0, 0>>, <<4, 0, 0>>, <<4, 4, 0>>, <<0, 4, 0>> >>

(* the same with the first of the two points given twice *)
BuriedTwice ==
  << <<-3, 0, 0>>, <<3, 0, 0>>, <<0, 4, 0>>, <<0, 0, 4>>,
     <<-1, 2, 1>>, <<-1, 2, 1>>, <<0, 3, 2>> >>

(* a tetrahedron and three points outside the same face, the farthest one  *)
(* leaving the other two outside the hull it makes                         *)
Crown ==
  << <<0, 0, 0>>, <<6, 0, 0>>, <<0, 6, 0>>, <<0, 0, 6>>,
     <<3, 3, 3>>, <<5, 2, 0>>, <<0, 2, 5>> >>

(* the same, and twice a point that is outside that face and inside the hull *)
CrownTwice == Crown \o << <<2, 2, 3>>, <<2, 2, 3>> >>

(* a tetrahedron, a point above one face, and a point that, once the first *)
(* is on the hull, is outside two of the new faces, farther from one       *)
Ridge ==
  << <<0, 0, 0>>, <<6, 0, 0>>, <<0, 6, 0>>, <<0, 0, 6>>, <<4, 4, 4>>, <<6, 3, 2>> >>

(* four points of which the one farthest from the segment between the two *)
(* extreme ones is not the one farthest from the line through them         *)
Skew ==
  << <<2, 3, 2>>, <<4, 1, 0>>, <<4, 0, 0>>, <<0, 4, 2>> >>

Scenarios ==
  Perms(Tetrahedron) \cup Rotations(TetrahedronTwice) \cup Perms(Pyramid) \cup Perms(Square)
  \cup Perms(Wedge) \cup Orders(Octahedron) \cup Orders(Spike) \cup Orders(Inside)
  \cup Rotations(Cube) \cup FrontPerms(Cube, 5) \cup Rotations(CubeCentre) \cup Rotations(Buried)
  \cup Rotations(BuriedTwice) \cup Rotations(Crown) \cup Rotations(CrownTwice)
  \cup Rotations(Ridge) \cup Perms(Skew)

(* every sequence of up to MaxPts points of the pool, and the scenarios *)
Inputs == SeqsUpTo(PointPool, MaxPts) \cup Scenarios

(* ------------------------------ vectors -------------------------------- *)
Sub(a, b) == << a[1] - b[1], a[2] - b[2], a[3] - b[3] >>
Add(a, b) == << a[1] + b[1], a[2] + b[2], a[3] + b[3] >>
Dot(a, b) == a[1] * b[1] + a[2] * b[2] + a[3] * b[3]
Cross(a, b) == << a[2] * b[3] - a[3] * b[2],
                  a[3] * b[1] - a[1] * b[3],
                  a[1] * b[2] - a[2] * b[1] >>
Abs(x) == IF x < 0 THEN -x ELSE x
Max(x, y) == IF x > y THEN x ELSE y
Sign(x) == IF x > 0 THEN 1 ELSE IF x < 0 THEN -1 ELSE 0

(* ------------------------------ marks ---------------------------------- *)
Visible == 0
Deleted == 1
Null == 0

(* --------------------------- real distances ---------------------------- *)
(* [num, nn] stands for num / (3 * sqrt(nn)), or 0 when nn = 0.            *)
Zero == [num |-> 0, nn |-> 1]

DistSign(d) == IF d.nn = 0 THEN 0 ELSE Sign(d.num)

(* d1 > d2 over the reals *)
DistGt(d1, d2) ==
  LET s1 == DistSign(d1)
      s2 == DistSign(d2)
  IN  IF s1 # s2 THEN s1 > s2
      ELSE IF s1 = 0 THEN FALSE
      ELSE IF s1 > 0 THEN d1.num * d1.num * d2.nn > d2.num * d2.num * d1.nn
      ELSE d1.num * d1.num * d2.nn < d2.num * d2.num * d1.nn

(* distance > k * this.tolerance, tol the stored S (or -1) *)
GtTolerance(d, k, tol) ==
  IF tol < 0 THEN DistGt(d, [num |-> -3 * k, nn |-> 1])
  ELSE DistSign(d) > 0

(* ------------------------------- state --------------------------------- *)
VARIABLES
  pc,          \* where the build is: idle, compute, loop, horizon, newfaces, resolve, done, crashed
  points,      \* the argument of setFromPoints
  log,         \* console.error messages
  error,       \* the exception that ended setFromPoints, or "none"
  tolerance,   \* this.tolerance (see above)
  vertices,    \* this.vertices: VertexNode records, a vertex is its index
  F,           \* every Face object created, a face is its index
  E,           \* every HalfEdge object created, an edge is its index
  faces,       \* this.faces: sequence of faces
  newFaces,    \* this.newFaces
  assigned,    \* this.assigned:   [head, tail]
  unassigned,  \* this.unassigned: [head, tail]
  eye,         \* eyeVertex of the running addVertexToHull
  horizon,     \* the horizon array of the running addVertexToHull
  stack,       \* activation records of computeHorizon
  cycles,      \* number of addVertexToHull calls of the build
  query,       \* the last query made
  result,      \* and what it returned
  builds,      \* what each setFromPoints call so far ended with
  renderLoop,  \* Renderer: this.renderLoop
  needsRender, \* Renderer: this.needsRender
  camera,      \* Renderer: this.camera
  pending,     \* requestAnimationFrame: renderCallback requests waiting for the next frame
  running,     \* callbacks of the frame in progress that have not run yet
  rendered     \* render() calls of the frame in progress, or of the last frame

hullVars == << pc, points, log, error, tolerance, vertices, F, E, faces, newFaces,
               assigned, unassigned, eye, horizon, stack, cycles, query, result, builds >>

rendererVars == << renderLoop, needsRender, camera, pending, running, rendered >>

vars == << hullVars, rendererVars >>

(* --------------------------- constructors ------------------------------ *)
VertexNode(point) == [point |-> point, prev |-> Null, next |-> Null, face |-> Null]

VertexList == [head |-> Null, tail |-> Null]

HalfEdge(vertex, face) ==
  [vertex |-> vertex, prev |-> Null, next |-> Null, twin |-> Null, face |-> face]

(* The mutable heap a ledger or mesh operation works on. *)
Heap == [vertices |-> vertices, F |-> F, E |-> E, faces |-> faces,
         assigned |-> assigned, unassigned |-> unassigned]

(* ------------------------------ HalfEdge ------------------------------- *)
head(H, e) == H.E[e].vertex

tail(H, e) == IF H.E[e].prev # Null THEN H.E[H.E[e].prev].vertex ELSE Null

(* mutant: only this.twin is set *)
setTwinOneWay(H, e, edge) == [H EXCEPT !.E[e].twin = edge]

setTwin(H, e, edge) ==
  [H EXCEPT !.E = [H.E EXCEPT ![e].twin = edge, ![edge].twin = e]]

(* -------------------------------- Face --------------------------------- *)
(* mutant: the index is ignored *)
getEdgeFirst(H, f, i) == H.F[f].edge

getEdge(H, f, i) ==
  LET RECURSIVE walk(_, _)
      walk(edge, k) ==
        IF k > 0 THEN walk(H.E[edge].next, k - 1)
        ELSE IF k < 0 THEN walk(H.E[edge].prev, k + 1)
        ELSE edge
  IN  walk(H.F[f].edge, i)

(* Triangle.getNormal of (a, b, c) before normalisation: (c - b) x (a - b) *)
TriangleNormal(a, b, c) == Cross(Sub(c, b), Sub(a, b))

(* Face.compute: triangle (edge.tail, edge.head, edge.next.head); the      *)
(* stored constant3 is 3 * sqrt(nn) * constant = N . (a + b + c).          *)
FaceCompute(H, f) ==
  LET e == H.F[f].edge
      a == H.vertices[tail(H, e)].point
      b == H.vertices[head(H, e)].point
      c == H.vertices[head(H, H.E[e].next)].point
      N == TriangleNormal(a, b, c)
  IN  [H EXCEPT !.F[f].normal = N,
                !.F[f].nn = Dot(N, N),
                !.F[f].constant3 = Dot(N, Add(Add(a, b), c))]

(* Face.create(a, b, c), returns the heap; the new face is Len(H.F) + 1 *)
FaceCreate(H, a, b, c) ==
  LET f  == Len(H.F) + 1
      e0 == Len(H.E) + 1
      e1 == e0 + 1
      e2 == e0 + 2
      face == [normal |-> <<0, 0, 0>>, nn |-> 0, constant3 |-> 0,
               outside |-> Null, mark |-> Visible, edge |-> e0]
      H1 == [H EXCEPT
               !.F = Append(H.F, face),
               !.E = H.E \o << [HalfEdge(a, f) EXCEPT !.next = e1, !.prev = e2],
                               [HalfEdge(b, f) EXCEPT !.next = e2, !.prev = e0],
                               [HalfEdge(c, f) EXCEPT !.next = e0, !.prev = e1] >>]
  IN  FaceCompute(H1, f)

(* Face.distanceToPoint: normal . point - constant *)
distanceToPoint(face, point) ==
  [num |-> 3 * Dot(face.normal, point) - face.constant3, nn |-> face.nn]


(* ----------------------------- VertexList ------------------------------ *)
(* L is "assigned" or "unassigned": the list the method is called on.      *)
first(H, L) == H[L].head

isEmpty(H, L) == H[L].head = Null

clear(H, L) == [H EXCEPT ![L] = [head |-> Null, tail |-> Null]]

insertBefore(H, L, target, vertex) ==
  LET p  == H.vertices[target].prev
      H1 == [H EXCEPT !.vertices[vertex].prev = p,
                      !.vertices[vertex].next = target]
      H2 == IF p = Null
            THEN [H1 EXCEPT ![L].head = vertex]
            ELSE [H1 EXCEPT !.vertices[p].next = vertex]
  IN  [H2 EXCEPT !.vertices[target].prev = vertex]

append(H, L, vertex) ==
  LET t  == H[L].tail
      H1 == IF H[L].head = Null
            THEN [H EXCEPT ![L].head = vertex]
            ELSE [H EXCEPT !.vertices[t].next = vertex]
      H2 == [H1 EXCEPT !.vertices[vertex].prev = t]
      H3 == [H2 EXCEPT !.vertices[vertex].next = Null]
  IN  [H3 EXCEPT ![L].tail = vertex]

RECURSIVE lastOfChain(_, _)
lastOfChain(H, vertex) ==
  IF H.vertices[vertex].next # Null
  THEN lastOfChain(H, H.vertices[vertex].next)
  ELSE vertex

(* mutant: only the first vertex of the chain is appended *)
appendChainOne(H, L, vertex) == append(H, L, vertex)

appendChain(H, L, vertex) ==
  LET t  == H[L].tail
      H1 == IF H[L].head = Null
            THEN [H EXCEPT ![L].head = vertex]
            ELSE [H EXCEPT !.vertices[t].next = vertex]
      H2 == [H1 EXCEPT !.vertices[vertex].prev = t]
  IN  [H2 EXCEPT ![L].tail = lastOfChain(H2, vertex)]

remove(H, L, vertex) ==
  LET p  == H.vertices[vertex].prev
      n  == H.vertices[vertex].next
      H1 == IF p = Null
            THEN [H EXCEPT ![L].head = n]
            ELSE [H EXCEPT !.vertices[p].next = n]
  IN  IF n = Null
      THEN [H1 EXCEPT ![L].tail = p]
      ELSE [H1 EXCEPT !.vertices[n].prev = p]

removeSubList(H, L, a, b) ==
  LET p  == H.vertices[a].prev
      n  == H.vertices[b].next
      H1 == IF p = Null
            THEN [H EXCEPT ![L].head = n]
            ELSE [H EXCEPT !.vertices[p].next = n]
  IN  IF n = Null
      THEN [H1 EXCEPT ![L].tail = p]
      ELSE [H1 EXCEPT !.vertices[n].prev = p]

(* ------------------------- the assignment ledger ----------------------- *)
(* mutant: the vertex always goes to the end of the assigned list *)
addVertexToFaceAtEnd(H, vertex, face) ==
  [append([H EXCEPT !.vertices[vertex].face = face], "assigned", vertex)
     EXCEPT !.F[face].outside = vertex]

addVertexToFace(H, vertex, face) ==
  LET H1 == [H EXCEPT !.vertices[vertex].face = face]
      H2 == IF H1.F[face].outside = Null
            THEN append(H1, "assigned", vertex)
            ELSE insertBefore(H1, "assigned", H1.F[face].outside, vertex)
  IN  [H2 EXCEPT !.F[face].outside = vertex]

removeVertexFromFace(H, vertex, face) ==
  LET n  == H.vertices[vertex].next
      H1 == IF vertex = H.F[face].outside
            THEN IF n # Null /\ H.vertices[n].face = face
                 THEN [H EXCEPT !.F[face].outside = n]
                 ELSE [H EXCEPT !.F[face].outside = Null]
            ELSE H
  IN  remove(H1, "assigned", vertex)

(* the last vertex of the run of face that starts at vertex *)
RECURSIVE endOfRun(_, _, _)
endOfRun(H, face, end) ==
  LET n == H.vertices[end].next
  IN  IF n # Null /\ H.vertices[n].face = face
      THEN endOfRun(H, face, n)
      ELSE end

(* returns [H, start]; start = Null stands for the undefined result *)
removeAllVerticesFromFace(H, face) ==
  IF H.F[face].outside # Null
  THEN LET start == H.F[face].outside
           end   == endOfRun(H, face, start)
           H1 == removeSubList(H, "assigned", start, end)
           H2 == [H1 EXCEPT !.vertices[start].prev = Null]
           H3 == [H2 EXCEPT !.vertices[end].next = Null]
       IN  [H |-> [H3 EXCEPT !.F[face].outside = Null], start |-> start]
  ELSE [H |-> H, start |-> Null]

(* deleteFaceVertices(face): every caller leaves absorbingFace undefined *)
deleteFaceVertices(H, face) ==
  LET r == removeAllVerticesFromFace(H, face)
  IN  IF r.start # Null
      THEN appendChain(r.H, "unassigned", r.start)
      ELSE r.H

(* --------------------------- computeExtremes --------------------------- *)
(* returns [min, max: the extreme vertices per axis, tolerance: S] *)
computeExtremes(H) ==
  LET vs == H.vertices
      init == [minV |-> <<1, 1, 1>>, maxV |-> <<1, 1, 1>>,
               min |-> vs[1].point, max |-> vs[1].point]
      RECURSIVE scan(_, _)
      scan(acc, i) ==
        IF i > Len(vs) THEN acc
        ELSE LET pt == vs[i].point
             IN  scan([minV |-> [j \in 1..3 |-> IF pt[j] < acc.min[j] THEN i ELSE acc.minV[j]],
                       min  |-> [j \in 1..3 |-> IF pt[j] < acc.min[j] THEN pt[j] ELSE acc.min[j]],
                       maxV |-> [j \in 1..3 |-> IF pt[j] > acc.max[j] THEN i ELSE acc.maxV[j]],
                       max  |-> [j \in 1..3 |-> IF pt[j] > acc.max[j] THEN pt[j] ELSE acc.max[j]]],
                      i + 1)
      r == scan(init, 1)
  IN  [min |-> r.minV, max |-> r.maxV,
       tolerance |-> Max(Abs(r.min[1]), Abs(r.max[1]))
                     + Max(Abs(r.min[2]), Abs(r.max[2]))
                     + Max(Abs(r.min[3]), Abs(r.max[3]))]

(* -------------------------- computeInitialHull ------------------------- *)
(* step 1: the axis with the greatest separation of its extremes *)
greatestSeparation(H, min, max) ==
  LET sep(i) == H.vertices[max[i]].point[i] - H.vertices[min[i]].point[i]
      RECURSIVE scan(_, _, _)
      scan(i, maxDistance, index) ==
        IF i > 3 THEN index
        ELSE IF sep(i) > maxDistance THEN scan(i + 1, sep(i), i)
        ELSE scan(i + 1, maxDistance, index)
  IN  scan(1, 0, 1)

(* Line3.closestPointToPoint(point, true) followed by distanceToSquared,   *)
(* times startEnd2 = |end - start|^2; NaN when start = end (0/0).          *)
(* The value is never negative, NaN is kept as -1: NaN > x is false.       *)
NaN == -1

segmentDistanceSq(start, end, point) ==
  LET startP == Sub(point, start)
      startEnd == Sub(end, start)
      startEnd2 == Dot(startEnd, startEnd)
      startEnd_startP == Dot(startEnd, startP)
  IN  IF startEnd2 = 0 THEN NaN
      ELSE IF startEnd_startP <= 0 THEN Dot(startP, startP) * startEnd2
      ELSE IF startEnd_startP >= startEnd2
           THEN Dot(Sub(point, end), Sub(point, end)) * startEnd2
      ELSE Dot(startP, startP) * startEnd2 - startEnd_startP * startEnd_startP

(* step 2: v2, Null when no vertex is at a distance > 0 *)
farthestFromLine(H, v0, v1) ==
  LET vs == H.vertices
      d(i) == segmentDistanceSq(vs[v0].point, vs[v1].point, vs[i].point)
      RECURSIVE scan(_, _, _)
      scan(i, maxDistance, v2) ==
        IF i > Len(vs) THEN v2
        ELSE IF i # v0 /\ i # v1 /\ d(i) # NaN /\ d(i) > maxDistance
             THEN scan(i + 1, d(i), i)
        ELSE scan(i + 1, maxDistance, v2)
  IN  scan(1, 0, Null)

(* mutant: the distance with its sign turned *)
planeDistanceNegated(a, b, c, point) == Dot(TriangleNormal(a, b, c), Sub(a, point))

(* Plane.setFromCoplanarPoints(a, b, c).distanceToPoint(point), times the  *)
(* length of the un-normalised normal                                      *)
planeDistance(a, b, c, point) == Dot(TriangleNormal(a, b, c), Sub(point, a))

(* step 3: v3, Null when there is no fourth vertex *)
farthestFromPlane(H, v0, v1, v2) ==
  LET vs == H.vertices
      d(i) == Abs(planeDistance(vs[v0].point, vs[v1].point, vs[v2].point, vs[i].point))
      RECURSIVE scan(_, _, _)
      scan(i, maxDistance, v3) ==
        IF i > Len(vs) THEN v3
        ELSE IF i # v0 /\ i # v1 /\ i # v2 /\ d(i) > maxDistance
             THEN scan(i + 1, d(i), i)
        ELSE scan(i + 1, maxDistance, v3)
  IN  scan(1, -1, Null)

(* the four faces and their twins; fs[k + 1] is faces[k] of the code *)
simplexFaces(H, v0, v1, v2, v3) ==
  LET b  == Len(H.F)
      fs == << b + 1, b + 2, b + 3, b + 4 >>
      pts == H.vertices
      below == planeDistance(pts[v0].point, pts[v1].point, pts[v2].point, pts[v3].point) < 0
      H4 == IF below
            THEN FaceCreate(FaceCreate(FaceCreate(FaceCreate(H,
                   v0, v1, v2), v3, v1, v0), v3, v2, v1), v3, v0, v2)
            ELSE FaceCreate(FaceCreate(FaceCreate(FaceCreate(H,
                   v0, v2, v1), v3, v0, v1), v3, v1, v2), v3, v2, v0)
      RECURSIVE join(_, _)
      join(G, i) ==
        IF i >= 3 THEN G
        ELSE LET j == (i + 1) % 3
             IN  IF below
                 THEN LET G1 == setTwin(G, getEdge(G, fs[i + 2], 2), getEdge(G, fs[1], j))
                      IN  join(setTwin(G1, getEdge(G1, fs[i + 2], 1), getEdge(G1, fs[j + 2], 0)),
                               i + 1)
                 ELSE LET G1 == setTwin(G, getEdge(G, fs[i + 2], 2), getEdge(G, fs[1], (3 - i) % 3))
                      IN  join(setTwin(G1, getEdge(G1, fs[i + 2], 0), getEdge(G1, fs[j + 2], 1)),
                               i + 1)
      H5 == join(H4, 0)
  IN  [H5 EXCEPT !.faces = H5.faces \o fs]

(* distance > maxDistance, where maxDistance starts as this.tolerance *)
ToleranceValue == [num |-> 1, nn |-> -1]

GtMax(d, maxDistance, tol) ==
  IF maxDistance.nn = -1 THEN GtTolerance(d, 1, tol) ELSE DistGt(d, maxDistance)

(* mutant: every vertex goes to the first face, whatever its distance *)
initialFaceAny(H, tol, vertex) == H.faces[1]

(* the face among this.faces[0..3] a vertex is first assigned to, or Null *)
initialFace(H, tol, vertex) ==
  LET RECURSIVE scan(_, _, _)
      scan(j, maxDistance, maxFace) ==
        IF j > 4 THEN maxFace
        ELSE LET face == H.faces[j]
                 distance == distanceToPoint(H.F[face], H.vertices[vertex].point)
             IN  IF GtMax(distance, maxDistance, tol)
                 THEN scan(j + 1, distance, face)
                 ELSE scan(j + 1, maxDistance, maxFace)
  IN  scan(1, ToleranceValue, Null)

(* mutant: no vertex is given to a face *)
initialAssignmentNone(H, tol, v0, v1, v2, v3) == H

initialAssignment(H, tol, v0, v1, v2, v3) ==
  LET RECURSIVE scan(_, _)
      scan(G, i) ==
        IF i > Len(G.vertices) THEN G
        ELSE IF i # v0 /\ i # v1 /\ i # v2 /\ i # v3
             THEN LET maxFace == initialFace(G, tol, i)
                  IN  IF maxFace # Null
                      THEN scan(addVertexToFace(G, i, maxFace), i + 1)
                      ELSE scan(G, i + 1)
        ELSE scan(G, i + 1)
  IN  scan(H, 1)

(* returns [error, tolerance, H]; a TypeError is the read of .point of an  *)
(* undefined vertex (vertices[0], v2 or v3)                                *)
computeInitialHull(H, tol) ==
  IF Len(H.vertices) = 0
  THEN [error |-> "TypeError", tolerance |-> tol, H |-> H, simplex |-> <<>>]
  ELSE
    LET extremes == computeExtremes(H)
        t     == extremes.tolerance
        index == greatestSeparation(H, extremes.min, extremes.max)
        v0    == extremes.min[index]
        v1    == extremes.max[index]
        v2    == farthestFromLine(H, v0, v1)
        v3    == farthestFromPlane(H, v0, v1, v2)
    IN  IF v2 = Null \/ v3 = Null
        THEN [error |-> "TypeError", tolerance |-> t, H |-> H, simplex |-> <<>>]
        ELSE [error |-> "none", tolerance |-> t,
              H |-> initialAssignment(simplexFaces(H, v0, v1, v2, v3), t, v0, v1, v2, v3),
              simplex |-> <<v0, v1, v2, v3>>]

(* mutant: the face is left Visible *)
deleteFaceUnmarked(H, face) == deleteFaceVertices(H, face)

(* mutant: the face is marked and keeps its outside vertices *)
deleteFaceKeepsVertices(H, face) == [H EXCEPT !.F[face].mark = Deleted]

(* computeHorizon, its first two statements: this.deleteFaceVertices(face) *)
(* and face.mark = Deleted                                                 *)
deleteFace(H, face) == [deleteFaceVertices(H, face) EXCEPT !.F[face].mark = Deleted]

(* --------------------------- nextVertexToAdd --------------------------- *)
(* mutant: the first vertex of the assigned list is taken *)
nextVertexFirst(H) == first(H, "assigned")

(* the eye vertex, Null for undefined *)
nextVertexToAdd(H) ==
  IF ~ isEmpty(H, "assigned")
  THEN LET eyeFace == H.vertices[first(H, "assigned")].face
           RECURSIVE scan(_, _, _)
           scan(vertex, maxDistance, eyeVertex) ==
             LET distance == distanceToPoint(H.F[eyeFace], H.vertices[vertex].point)
                 far == DistGt(distance, maxDistance)
                 n == H.vertices[vertex].next
                 m == IF far THEN distance ELSE maxDistance
                 e == IF far THEN vertex ELSE eyeVertex
             IN  IF n # Null /\ H.vertices[n].face = eyeFace
                 THEN scan(n, m, e)
                 ELSE e
       IN  scan(H.F[eyeFace].outside, Zero, Null)
  ELSE Null

(* ---------------------------- computeHorizon --------------------------- *)
(* mutant: every activation walks its face from getEdge(0), as the first   *)
(* one does                                                                *)
FrameFromFirst(crossEdge, face) ==
  [crossEdge |-> Null, face |-> face, edge |-> Null, at |-> "enter"]

(* An activation record of computeHorizon(eyePoint, crossEdge, face,       *)
(* horizon): at "enter" nothing has run, at "body" the do-while body runs  *)
(* for edge, at "test" the loop condition edge !== crossEdge is next.      *)
Frame(crossEdge, face) ==
  [crossEdge |-> crossEdge, face |-> face, edge |-> Null, at |-> "enter"]

(* mutant: no neighbouring face is ever taken to see the eye point *)
canSeeNone(face, eyePoint, tol) == FALSE

(* mutant: the comparison is turned round *)
canSeeBehind(face, eyePoint, tol) == ~ GtTolerance(distanceToPoint(face, eyePoint), 1, tol)

(* oppositeFace.distanceToPoint(eyePoint) > this.tolerance *)
canSee(face, eyePoint, tol) == GtTolerance(distanceToPoint(face, eyePoint), 1, tol)

(* --------------------------- addAdjoiningFace -------------------------- *)
(* Heavy values are bound as operator parameters rather than by LET: the   *)
(* steps of a method that work on the heap it has built so far are         *)
(* operators of their own.                                                 *)

(* this.faces.push(face), face the newest Face object *)
pushFace(H) == [H EXCEPT !.faces = Append(H.faces, Len(H.F))]

(* mutant: the new face is joined to the horizon edge itself, an edge of   *)
(* the face that was deleted                                               *)
joinDeletedEdge(H, horizonEdge) ==
  setTwin(H, getEdge(H, Len(H.F), -1), horizonEdge)

(* face.getEdge(-1).setTwin(horizonEdge.twin), face the newest Face object *)
joinHorizonEdge(H, horizonEdge) ==
  setTwin(H, getEdge(H, Len(H.F), -1), H.E[horizonEdge].twin)

(* face.getEdge(0) of the newest Face object: the returned side edge *)
sideEdgeOf(H) == getEdge(H, Len(H.F), 0)

(* returns the heap; the side edge it returns in the code is sideEdgeOf *)
addAdjoiningFace(H, eyeVertex, horizonEdge) ==
  joinHorizonEdge(
    pushFace(FaceCreate(H, eyeVertex, tail(H, horizonEdge), head(H, horizonEdge))),
    horizonEdge)

(* ------------------------------ addNewFaces ---------------------------- *)
(* mutant: the side edge itself, not its next, is joined to the previous   *)
(* side edge                                                               *)
joinSideEdgeItself(G, firstSideEdge, previousSideEdge) ==
  IF firstSideEdge = Null
  THEN G
  ELSE setTwin(G, sideEdgeOf(G), previousSideEdge)

(* the body of the loop after addAdjoiningFace returned the heap G *)
joinSideEdge(G, firstSideEdge, previousSideEdge) ==
  IF firstSideEdge = Null
  THEN G
  ELSE setTwin(G, G.E[sideEdgeOf(G)].next, previousSideEdge)

(* returns [H, newFaces]; the horizon is not empty *)
RECURSIVE addNewFacesFrom(_, _, _, _, _, _, _)

(* the rest of the loop body: G holds the new face and its joins *)
addNewFacesNext(G, eyeVertex, hor, i, firstSideEdge, nf) ==
  addNewFacesFrom(G, eyeVertex, hor, i + 1,
                  IF firstSideEdge = Null THEN sideEdgeOf(G) ELSE firstSideEdge,
                  sideEdgeOf(G),
                  Append(nf, G.E[sideEdgeOf(G)].face))

addNewFacesFrom(G, eyeVertex, hor, i, firstSideEdge, previousSideEdge, nf) ==
  IF i > Len(hor)
  THEN [H |-> setTwin(G, G.E[firstSideEdge].next, previousSideEdge), newFaces |-> nf]
  ELSE addNewFacesNext(
         joinSideEdge(addAdjoiningFace(G, eyeVertex, hor[i]), firstSideEdge, previousSideEdge),
         eyeVertex, hor, i, firstSideEdge, nf)

addNewFaces(H, eyeVertex, hor) == addNewFacesFrom(H, eyeVertex, hor, 1, Null, Null, <<>>)

(* ------------------------ resolveUnassignedPoints ---------------------- *)
(* mutant: every orphaned vertex goes to the first new face *)
maxFaceOfFirst(H, tol, nf, vertex) == nf[1]

(* mutant: the scan never stops early *)
maxFaceOfAll(H, tol, nf, vertex) ==
  LET RECURSIVE scan(_, _, _)
      scan(i, maxDistance, maxFace) ==
        IF i > Len(nf) THEN maxFace
        ELSE IF GtMax(distanceToPoint(H.F[nf[i]], H.vertices[vertex].point), maxDistance, tol)
             THEN scan(i + 1, distanceToPoint(H.F[nf[i]], H.vertices[vertex].point), nf[i])
             ELSE scan(i + 1, maxDistance, maxFace)
  IN  scan(1, ToleranceValue, Null)

(* the face of newFaces a vertex of the unassigned list goes to, or Null *)
maxFaceOf(H, tol, nf, vertex) ==
  LET RECURSIVE scan(_, _, _)
      scan(i, maxDistance, maxFace) ==
        IF i > Len(nf) THEN maxFace
        ELSE LET face == nf[i]
             IN  IF H.F[face].mark = Visible
                 THEN LET distance == distanceToPoint(H.F[face], H.vertices[vertex].point)
                          far == GtMax(distance, maxDistance, tol)
                          m == IF far THEN distance ELSE maxDistance
                          f == IF far THEN face ELSE maxFace
                      IN  IF m.nn # -1 /\ GtTolerance(m, 1000, tol)
                          THEN f
                          ELSE scan(i + 1, m, f)
                 ELSE scan(i + 1, maxDistance, maxFace)
  IN  scan(1, ToleranceValue, Null)

(* mutant: the orphaned vertices are never given to the new faces *)
resolveNothing(H, tol, nf) == H

resolveUnassignedPoints(H, tol, nf) ==
  IF ~ isEmpty(H, "unassigned")
  THEN LET RECURSIVE scan(_, _)
           scan(G, vertex) ==
             LET nextVertex == G.vertices[vertex].next
                 maxFace == maxFaceOf(G, tol, nf, vertex)
                 G1 == IF maxFace # Null THEN addVertexToFace(G, vertex, maxFace) ELSE G
             IN  IF nextVertex # Null THEN scan(G1, nextVertex) ELSE G1
       IN  scan(H, first(H, "unassigned"))
  ELSE H

(* mutant: deleted faces are kept *)
reindexFacesAll(H) == H

(* ------------------------------ reindexFaces --------------------------- *)
reindexFaces(H) ==
  [H EXCEPT !.faces = SelectSeq(H.faces, LAMBDA f : H.F[f].mark = Visible)]

(* ------------------------------- queries ------------------------------- *)
(* mutant: the last face is not looked at *)
containsPointButLast(H, tol, point) ==
  \A i \in 1..(Len(H.faces) - 1) :
    ~ GtTolerance(distanceToPoint(H.F[H.faces[i]], point), 1, tol)

containsPoint(H, tol, point) ==
  LET RECURSIVE scan(_)
      scan(i) ==
        IF i > Len(H.faces) THEN TRUE
        ELSE IF GtTolerance(distanceToPoint(H.F[H.faces[i]], point), 1, tol) THEN FALSE
        ELSE scan(i + 1)
  IN  scan(1)

(* A ray parameter is the rational num / den, den > 0; den = 0 stands for  *)
(* -Infinity (num = -1) and Infinity (num = 1).                            *)
NegInfinity == [num |-> -1, den |-> 0]
Infinity == [num |-> 1, den |-> 0]

TLess(a, b) ==
  IF a.den = 0 /\ b.den = 0 THEN a.num < b.num
  ELSE a.num * b.den < b.num * a.den

(* mutant: tFar is never lowered *)
TMinKeepsFar(t, tFar) == tFar

TMin(a, b) == IF TLess(b, a) THEN b ELSE a
TMax(a, b) == IF TLess(a, b) THEN b ELSE a

(* Ray.at(t): origin + direction * t, as homogeneous coordinates x / w;    *)
(* w = 0 when t is infinite (the coordinates are then infinite or NaN)     *)
at(ray, t) ==
  [x |-> [j \in 1..3 |-> ray.origin[j] * t.den + ray.direction[j] * t.num], w |-> t.den]

(* mutant: the first face alone decides *)
intersectRayFirstFace(H, ray) ==
  IF Len(H.faces) = 0 THEN [kind |-> "point", t |-> Infinity, point |-> at(ray, Infinity)]
  ELSE LET face == H.F[H.faces[1]]
           num == distanceToPoint(face, ray.origin).num
           nd == Dot(face.normal, ray.direction)
       IN  IF face.nn > 0 /\ num > 0 /\ nd >= 0 THEN [kind |-> "null"]
           ELSE IF nd # 0 /\ (0 - num) * Sign(nd) > 0
                THEN [kind |-> "point",
                      t |-> [num |-> (0 - num) * Sign(nd), den |-> 3 * Abs(nd)],
                      point |-> at(ray, [num |-> (0 - num) * Sign(nd), den |-> 3 * Abs(nd)])]
           ELSE [kind |-> "point", t |-> Infinity, point |-> at(ray, Infinity)]

(* returns [kind |-> "null"] or [kind |-> "point", t, point] *)
intersectRay(H, ray) ==
  LET RECURSIVE scan(_, _, _)
      scan(i, tNear, tFar) ==
        IF i > Len(H.faces)
        THEN IF tNear # NegInfinity
             THEN [kind |-> "point", t |-> tNear, point |-> at(ray, tNear)]
             ELSE [kind |-> "point", t |-> tFar, point |-> at(ray, tFar)]
        ELSE
          LET face == H.F[H.faces[i]]
              vN == DistSign(distanceToPoint(face, ray.origin))
              nd == Dot(face.normal, ray.direction)
              vD == Sign(nd)
              t  == IF vD # 0
                    THEN [num |-> (0 - distanceToPoint(face, ray.origin).num) * vD,
                          den |-> 3 * Abs(nd)]
                    ELSE [num |-> 0, den |-> 1]
          IN  IF vN > 0 /\ vD >= 0 THEN [kind |-> "null"]
              ELSE IF t.num <= 0 THEN scan(i + 1, tNear, tFar)
              ELSE LET far  == IF vD > 0 THEN TMin(t, tFar) ELSE tFar
                       near == IF vD > 0 THEN tNear ELSE TMax(t, tNear)
                   IN  IF TLess(far, near) THEN [kind |-> "null"]
                       ELSE scan(i + 1, near, far)
  IN  scan(1, NegInfinity, Infinity)

(* the queries made *)
QueryPoints == { <<0, 0, 0>>, <<1, 1, 1>>, <<4, 4, 4>>, <<3, 3, -1>> }

RayOrigins == { <<4, 4, 4>>, <<0, 0, 0>>, <<1, 1, 1>> }
RayTargets == { <<1, 1, 1>>, <<0, 0, 0>> }

Rays ==
  LET pairs == { pr \in RayOrigins \X RayTargets : pr[1] # pr[2] }
  IN  { [origin |-> pr[1], direction |-> Sub(pr[2], pr[1])] : pr \in pairs }
      \cup
      { [origin |-> pr[1], direction |-> Sub(pr[1], pr[2])] : pr \in pairs }

NoQuery == [op |-> "none"]
NoResult == [kind |-> "none"]

(* the plane of a face as the caller sees it: the unit normal and the     *)
(* constant.  Unit normals are equal exactly when the normals divided by  *)
(* the gcd of their components are, and then the constants are equal      *)
(* exactly when constant3 divided by the same gcd is.                      *)
RECURSIVE Gcd(_, _)
Gcd(a, b) == IF b = 0 THEN a ELSE Gcd(b, a % b)

PlaneOf(face) ==
  LET g == Gcd(Gcd(Abs(face.normal[1]), Abs(face.normal[2])), Abs(face.normal[3]))
  IN  IF g = 0 THEN [normal |-> <<0, 0, 0>>, constant |-> 0]
      ELSE [normal |-> [j \in 1..3 |-> face.normal[j] \div g],
            constant |-> face.constant3 \div g]

(* what a caller has in hand when setFromPoints returns or throws *)
Outcome(H, err) ==
  [points |-> points,
   error |-> err,
   count |-> Len(H.faces),
   planes |-> { PlaneOf(H.F[H.faces[i]]) : i \in 1..Len(H.faces) }]

(* The planes through three points of a cloud that have the whole cloud   *)
(* on one side and not all of it on them: the planes of the faces of its   *)
(* convex hull, as [a, b, c, side].                                        *)
SupportingPlanes(pts) ==
  LET n == Len(pts)
  IN  { pl \in [a : 1..n, b : 1..n, c : 1..n, side : {-1, 1}] :
          /\ pl.a < pl.b /\ pl.b < pl.c
          /\ \A q \in 1..n :
               pl.side * planeDistance(pts[pl.a], pts[pl.b], pts[pl.c], pts[q]) <= 0
          /\ \E q \in 1..n :
               planeDistance(pts[pl.a], pts[pl.b], pts[pl.c], pts[q]) # 0 }

(* the indices whose point is strictly inside the convex hull of the cloud *)
(* and is given more than once                                             *)
InteriorDuplicates(pts) ==
  LET doubled == { i \in 1..Len(pts) : \E j \in 1..Len(pts) : j # i /\ pts[j] = pts[i] }
  IN  IF doubled = {} THEN {}
      ELSE LET planes == SupportingPlanes(pts)
           IN  { i \in doubled :
                   /\ planes # {}
                   /\ \A pl \in planes :
                        pl.side * planeDistance(pts[pl.a], pts[pl.b], pts[pl.c], pts[i]) < 0 }

(* a sequence without the entries of the given indices *)
RECURSIVE Without(_, _)
Without(pts, drop) ==
  IF pts = <<>> THEN <<>>
  ELSE LET front == Without(SubSeq(pts, 1, Len(pts) - 1), drop)
       IN  IF Len(pts) \in drop THEN front ELSE Append(front, pts[Len(pts)])

(* what setFromPoints is called with again: the same cloud, the cloud      *)
(* without its interior duplicates, the cloud with one of each kept        *)
Rebuilds(pts) ==
  LET dup == InteriorDuplicates(pts)
  IN  { pts,
        Without(pts, dup),
        Without(pts, { i \in dup : \E j \in 1..(i - 1) : pts[j] = pts[i] }) }

(* =============================== actions =============================== *)
Init ==
  /\ pc = "idle"
  /\ points = <<>>
  /\ log = {}
  /\ error = "none"
  /\ tolerance = -1
  /\ vertices = <<>>
  /\ F = <<>>
  /\ E = <<>>
  /\ faces = <<>>
  /\ newFaces = <<>>
  /\ assigned = VertexList
  /\ unassigned = VertexList
  /\ eye = Null
  /\ horizon = <<>>
  /\ stack = <<>>
  /\ cycles = 0
  /\ query = NoQuery
  /\ result = NoResult
  /\ builds = <<>>
  /\ renderLoop = FALSE
  /\ needsRender = FALSE
  /\ camera = "undefined"
  /\ pending = 0
  /\ running = 0
  /\ rendered = 0

(* the heap after an operation *)
Store(H) ==
  /\ vertices' = H.vertices
  /\ F' = H.F
  /\ E' = H.E
  /\ faces' = H.faces
  /\ assigned' = H.assigned
  /\ unassigned' = H.unassigned

(* mutant: the faces of the last build are kept *)
makeEmptyVertices(H) == [H EXCEPT !.vertices = <<>>]

makeEmpty(H) == [H EXCEPT !.faces = <<>>, !.vertices = <<>>]

(* setFromPoints up to the call of compute; makeEmpty is its first step *)
SetFromPoints ==
  /\ pc \in {"idle", "done", "crashed"}
  /\ UNCHANGED rendererVars
  /\ Len(builds) < MaxBuilds
  /\ \E pts \in (IF pc = "idle" THEN Inputs ELSE Rebuilds(points)) :
       /\ points' = pts
       /\ log' = IF Len(pts) < 4
                 THEN log \cup {"THREE.ConvexHull: The algorithm needs at least four points."}
                 ELSE log
       /\ Store([makeEmpty(Heap) EXCEPT !.vertices = [i \in 1..Len(pts) |-> VertexNode(pts[i])]])
  /\ pc' = "compute"
  /\ query' = NoQuery
  /\ result' = NoResult
  /\ error' = "none"
  /\ cycles' = 0
  /\ UNCHANGED << tolerance, newFaces, eye, horizon, stack, builds >>

(* compute: this.computeInitialHull() *)
ComputeInitialHull ==
  /\ pc = "compute"
  /\ UNCHANGED rendererVars
  /\ LET r == computeInitialHull(Heap, tolerance)
     IN  /\ tolerance' = r.tolerance
         /\ error' = r.error
         /\ Store(r.H)
         /\ pc' = IF r.error = "none" THEN "loop" ELSE "crashed"
         /\ builds' = IF r.error = "none" THEN builds
                      ELSE Append(builds, Outcome(r.H, r.error))
  /\ UNCHANGED << points, log, newFaces, eye, horizon, stack, cycles, query, result >>

(* compute: the loop test succeeds; addVertexToHull up to the call of      *)
(* computeHorizon                                                          *)
AddVertexToHull ==
  /\ pc = "loop"
  /\ UNCHANGED rendererVars
  /\ nextVertexToAdd(Heap) # Null
  /\ LET eyeVertex == nextVertexToAdd(Heap)
         H1 == clear(Heap, "unassigned")
         H2 == removeVertexFromFace(H1, eyeVertex, H1.vertices[eyeVertex].face)
     IN  /\ eye' = eyeVertex
         /\ Store(H2)
         /\ stack' = << Frame(Null, H2.vertices[eyeVertex].face) >>
  /\ horizon' = <<>>
  /\ cycles' = cycles + 1
  /\ pc' = "horizon"
  /\ UNCHANGED << points, log, error, tolerance, newFaces, query, result, builds >>

(* computeHorizon: entry, up to the do-while loop *)
ComputeHorizonEnter ==
  /\ pc = "horizon"
  /\ UNCHANGED rendererVars
  /\ stack[Len(stack)].at = "enter"
  /\ LET top == stack[Len(stack)]
         H2 == deleteFace(Heap, top.face)
         crossEdge == IF top.crossEdge = Null THEN getEdge(H2, top.face, 0) ELSE top.crossEdge
         edge == IF top.crossEdge = Null THEN crossEdge ELSE H2.E[crossEdge].next
     IN  /\ Store(H2)
         /\ stack' = [stack EXCEPT ![Len(stack)] =
                        [top EXCEPT !.crossEdge = crossEdge, !.edge = edge, !.at = "body"]]
  /\ UNCHANGED << pc, points, log, error, tolerance, newFaces, eye, horizon, cycles,
                  query, result, builds >>

(* computeHorizon: one pass of the do-while body; a visible neighbour that *)
(* sees the eye point is entered recursively                               *)
ComputeHorizonEdge ==
  /\ pc = "horizon"
  /\ UNCHANGED rendererVars
  /\ LET top == stack[Len(stack)]
     IN  /\ \/ top.at = "body"
            \/ top.at = "test" /\ top.edge # top.crossEdge
         /\ LET edge == top.edge
                twinEdge == E[edge].twin
                oppositeFace == E[twinEdge].face
                eyePoint == vertices[eye].point
                here == [top EXCEPT !.edge = E[edge].next, !.at = "test"]
            IN  IF F[oppositeFace].mark = Visible
                THEN IF canSee(F[oppositeFace], eyePoint, tolerance)
                     THEN /\ stack' = Append([stack EXCEPT ![Len(stack)] = here],
                                             Frame(twinEdge, oppositeFace))
                          /\ horizon' = horizon
                     ELSE /\ stack' = [stack EXCEPT ![Len(stack)] = here]
                          /\ horizon' = Append(horizon, edge)
                ELSE /\ stack' = [stack EXCEPT ![Len(stack)] = here]
                     /\ horizon' = horizon
  /\ UNCHANGED << pc, points, log, error, tolerance, vertices, F, E, faces, newFaces,
                  assigned, unassigned, eye, cycles, query, result, builds >>

(* computeHorizon: the loop ends, the call returns *)
ComputeHorizonReturn ==
  /\ pc = "horizon"
  /\ UNCHANGED rendererVars
  /\ LET top == stack[Len(stack)]
     IN  top.at = "test" /\ top.edge = top.crossEdge
  /\ stack' = SubSeq(stack, 1, Len(stack) - 1)
  /\ pc' = IF Len(stack) = 1 THEN "newfaces" ELSE "horizon"
  /\ UNCHANGED << points, log, error, tolerance, vertices, F, E, faces, newFaces,
                  assigned, unassigned, eye, horizon, cycles, query, result, builds >>

(* addVertexToHull: this.addNewFaces(eyeVertex, horizon); an empty horizon *)
(* ends in the read of firstSideEdge.next of null                          *)
AddNewFaces ==
  /\ pc = "newfaces"
  /\ UNCHANGED rendererVars
  /\ IF horizon = <<>>
     THEN /\ newFaces' = <<>>
          /\ error' = "TypeError"
          /\ pc' = "crashed"
          /\ builds' = Append(builds, Outcome(Heap, "TypeError"))
          /\ UNCHANGED << vertices, F, E, faces, assigned, unassigned >>
     ELSE LET r == addNewFaces(Heap, eye, horizon)
          IN  /\ Store(r.H)
              /\ newFaces' = r.newFaces
              /\ error' = error
              /\ builds' = builds
              /\ pc' = "resolve"
  /\ UNCHANGED << points, log, tolerance, eye, horizon, stack, cycles, query, result >>

(* addVertexToHull: this.resolveUnassignedPoints(this.newFaces) *)
ResolveUnassignedPoints ==
  /\ pc = "resolve"
  /\ UNCHANGED rendererVars
  /\ Store(resolveUnassignedPoints(Heap, tolerance, newFaces))
  /\ pc' = "loop"
  /\ UNCHANGED << points, log, error, tolerance, newFaces, eye, horizon, stack, cycles,
                  query, result, builds >>

(* mutant: the unassigned list is left as the last cycle left it *)
cleanupAssignedOnly(H) == clear(H, "assigned")

(* compute: the loop test fails; reindexFaces and cleanup *)
cleanup(H) == clear(clear(H, "assigned"), "unassigned")

Finish ==
  /\ pc = "loop"
  /\ UNCHANGED rendererVars
  /\ nextVertexToAdd(Heap) = Null
  /\ Store(cleanup(reindexFaces(Heap)))
  /\ newFaces' = <<>>
  /\ builds' = Append(builds, Outcome(reindexFaces(Heap), "none"))
  /\ pc' = "done"
  /\ UNCHANGED << points, log, error, tolerance, eye, horizon, stack, cycles, query, result >>

(* queries on a fresh or a built hull; a query changes nothing of the     *)
(* hull, so one query per behaviour is observed                            *)
ContainsPoint ==
  /\ pc \in {"idle", "done"}
  /\ UNCHANGED rendererVars
  /\ query = NoQuery
  /\ \E point \in QueryPoints :
       /\ query' = [op |-> "containsPoint", point |-> point]
       /\ result' = [kind |-> "bool", value |-> containsPoint(Heap, tolerance, point)]
  /\ UNCHANGED << pc, points, log, error, tolerance, vertices, F, E, faces, newFaces,
                  assigned, unassigned, eye, horizon, stack, cycles, builds >>

IntersectRay ==
  /\ pc \in {"idle", "done"}
  /\ UNCHANGED rendererVars
  /\ query = NoQuery
  /\ \E ray \in Rays :
       /\ query' = [op |-> "intersectRay", ray |-> ray]
       /\ result' = intersectRay(Heap, ray)
  /\ UNCHANGED << pc, points, log, error, tolerance, vertices, F, E, faces, newFaces,
                  assigned, unassigned, eye, horizon, stack, cycles, builds >>

(* ------------------------------ Renderer -------------------------------- *)
(* The page runs one task at a time: start, stop and setCamera are called  *)
(* between animation frames (running = 0).  A frame takes the callback     *)
(* list as it stands and runs each callback once; a request made while the *)
(* frame runs waits for the next frame.                                    *)
Cameras == { "perspective", "orthographic" }

(* requestAnimationFrame(this.renderCallback) *)
requestAnimationFrame(list) == list + 1

(* render(): webgl.render(scene, camera) *)
render(count) == count + 1

setCamera ==
  /\ running = 0
  /\ \E c \in Cameras : camera' = c
  /\ UNCHANGED << hullVars, renderLoop, needsRender, pending, running, rendered >>

start ==
  /\ running = 0
  /\ pending < MaxPending
  /\ renderLoop' = TRUE
  /\ needsRender' = TRUE
  /\ pending' = requestAnimationFrame(pending)
  /\ UNCHANGED << hullVars, camera, running, rendered >>

stop ==
  /\ running = 0
  /\ renderLoop' = FALSE
  /\ needsRender' = FALSE
  /\ UNCHANGED << hullVars, camera, pending, running, rendered >>

(* the browser begins a frame with the requests made so far *)
AnimationFrame ==
  /\ running = 0
  /\ pending > 0
  /\ running' = pending
  /\ pending' = 0
  /\ rendered' = 0
  /\ UNCHANGED << hullVars, renderLoop, needsRender, camera >>

renderCallback ==
  /\ running > 0
  /\ running' = running - 1
  /\ rendered' = IF needsRender /\ camera # "undefined" THEN render(rendered) ELSE rendered
  /\ pending' = IF renderLoop THEN requestAnimationFrame(pending) ELSE pending
  /\ UNCHANGED << hullVars, renderLoop, needsRender, camera >>

RenderNext ==
  \/ setCamera
  \/ start
  \/ stop
  \/ AnimationFrame
  \/ renderCallback

RenderSpec == Init /\ [][RenderNext]_vars


Next ==
  \/ SetFromPoints
  \/ ComputeInitialHull
  \/ AddVertexToHull
  \/ ComputeHorizonEnter
  \/ ComputeHorizonEdge
  \/ ComputeHorizonReturn
  \/ AddNewFaces
  \/ ResolveUnassignedPoints
  \/ Finish
  \/ ContainsPoint
  \/ IntersectRay

Spec == Init /\ [][Next]_vars

(* The steps of compute(): synchronous code, each step is taken once it    *)
(* can be.                                                                 *)
Compute ==
  \/ ComputeInitialHull
  \/ AddVertexToHull
  \/ ComputeHorizonEnter
  \/ ComputeHorizonEdge
  \/ ComputeHorizonReturn
  \/ AddNewFaces
  \/ ResolveUnassignedPoints
  \/ Finish

Computing == {"compute", "loop", "horizon", "newfaces", "resolve"}

(* the recursive walk of computeHorizon *)
ComputeHorizon == ComputeHorizonEnter \/ ComputeHorizonEdge \/ ComputeHorizonReturn

(* Weak fairness of Compute: compute() is one synchronous call.  For the   *)
(* whole of Compute it is written out, with ENABLED <<Compute>>_vars as    *)
(* the state predicate it equals, pc \in Computing (every such state has a *)
(* Compute step, and every Compute step changes pc or the stack).          *)
FairSpec ==
  /\ Init /\ [][Next]_vars
  /\ WF_vars(ComputeHorizon)
  /\ WF_vars(Finish)
  /\ ([]<>(pc \notin Computing) \/ []<><<Compute>>_vars)

(* ============================== properties ============================= *)
Range(s) == { s[i] : i \in 1..Len(s) }

(* the half-edges that belong to a face *)
EdgesOf(f) == { e \in 1..Len(E) : E[e].face = f }

(* the vertices that are corners of a face of this.faces *)
HullVertices == { E[e].vertex : e \in UNION { EdgesOf(f) : f \in Range(faces) } }

(* face.distanceToPoint(point) <= this.tolerance *)
Within(f, point) == ~ GtTolerance(distanceToPoint(F[f], point), 1, tolerance)

(* C1  Convexity: after a successful build every corner of a final face    *)
(* is at a distance <= tolerance from every final face.                    *)
C1_Convexity ==
  pc = "done" =>
    \A f \in Range(faces) : \A v \in HullVertices : Within(f, vertices[v].point)

(* a build of at least two insertion cycles whose hull has a vertex that   *)
(* is not a corner of the first simplex                                    *)
C1_Witness ==
  /\ pc = "done"
  /\ cycles >= 2
  /\ Cardinality(HullVertices) >= 6
  /\ \E f \in Range(faces) : \E v \in HullVertices :
       DistSign(distanceToPoint(F[f], vertices[v].point)) < 0

(* C2  Containment: after a successful build containsPoint is true of      *)
(* every input point.                                                      *)
C2_Containment ==
  pc = "done" =>
    \A i \in 1..Len(points) : containsPoint(Heap, tolerance, points[i])

(* a build with cycles whose input has a duplicated point and a point that *)
(* is not a corner of the hull                                             *)
C2_Witness ==
  /\ pc = "done"
  /\ cycles >= 1
  /\ \E i, j \in 1..Len(points) : i # j /\ points[i] = points[j]
  /\ \E i \in 1..Len(points) : i \notin HullVertices
                               /\ \A v \in HullVertices : vertices[v].point # points[i]

(* C3  Topological closure: after the initial simplex, after every         *)
(* insertion cycle and in the final mesh, every half-edge e of a Visible   *)
(* face has e.twin.twin = e, and the edges of the face form a 3-cycle of   *)
(* next with prev its inverse.                                             *)
ClosedFace(f) ==
  /\ Cardinality(EdgesOf(f)) = 3
  /\ \A e \in EdgesOf(f) :
       /\ E[e].twin # Null
       /\ E[E[e].twin].twin = e
       /\ E[e].next \in EdgesOf(f)
       /\ E[e].next # e
       /\ E[E[E[e].next].next].next = e
       /\ E[E[e].next].prev = e
       /\ E[e].prev # Null
       /\ E[E[e].prev].next = e

C3_TopologicalClosure ==
  pc \in {"loop", "done"} =>
    \A f \in Range(faces) : F[f].mark = Visible => ClosedFace(f)

(* the mesh after the second insertion cycle *)
C3_Witness ==
  /\ pc = "loop"
  /\ cycles = 2
  /\ \E f \in Range(faces) : F[f].mark = Deleted
  /\ Cardinality({ f \in Range(faces) : F[f].mark = Visible }) >= 8

(* C4  Euler's formula: V - E + F = 2 for the final mesh, F the number of  *)
(* final faces, E the number of twin pairs of their half-edges, V the      *)
(* number of distinct corner vertices.                                     *)
FinalEdges == UNION { EdgesOf(f) : f \in Range(faces) }

EulerV == Cardinality(HullVertices)
EulerE == Cardinality({ {e, E[e].twin} : e \in FinalEdges })
EulerF == Len(faces)

C4_Euler == pc = "done" => EulerV - EulerE + EulerF = 2

(* a final mesh of 12 faces, 18 edges and 8 vertices, some faces deleted *)
C4_Witness ==
  /\ pc = "done"
  /\ EulerF = 12 /\ EulerE = 18 /\ EulerV = 8
  /\ Len(F) > 12

(* C5  Fewer than 4 points: the build fails with InvalidInput at once,     *)
(* and computeInitialHull is never run (tolerance keeps its constructor    *)
(* value).                                                                 *)
C5_InvalidInputFailsFast ==
  (pc \notin {"idle", "compute"} /\ Len(points) < 4) =>
    (pc = "crashed" /\ error = "InvalidInput" /\ tolerance = -1)

(* C6  At least 4 points, all coincident, collinear or coplanar: the build *)
(* fails before the incremental loop and produces no faces.                *)
Coplanar(pts) ==
  \A i, j, k, l \in 1..Len(pts) : planeDistance(pts[i], pts[j], pts[k], pts[l]) = 0

C6_DegenerateFails ==
  (pc \notin {"idle", "compute"} /\ Len(points) >= 4 /\ Coplanar(points)) =>
    (pc = "crashed" /\ error # "none" /\ faces = <<>>)

(* C7  Termination: once the simplex stage is passed the build returns;    *)
(* the vertices still to be placed (the assigned ledger, and during a      *)
(* cycle the orphaned vertices of the unassigned chain) never grow in      *)
(* number and shrink with every addVertexToHull; there are at most n - 4   *)
(* cycles; the horizon walk is never deeper than there are faces.          *)
RECURSIVE ChainLength(_)
ChainLength(v) == IF v = Null THEN 0 ELSE 1 + ChainLength(vertices[v].next)

Rank ==
  IF pc = "loop" THEN ChainLength(assigned.head)
  ELSE IF pc \in {"horizon", "newfaces", "resolve"}
       THEN ChainLength(assigned.head) + ChainLength(unassigned.head)
  ELSE 0

RankStep ==
  /\ pc \in {"loop", "horizon", "newfaces", "resolve"} => Rank' <= Rank
  /\ cycles' > cycles => (Rank' < Rank /\ cycles' <= Len(points) - 4)
  /\ Len(stack') <= Len(F')

C7_Termination ==
  /\ [][RankStep]_vars
  /\ (pc = "loop") ~> (pc = "done")

(* a build of three insertion cycles has returned *)
C7_Witness == pc = "done" /\ cycles >= 3 /\ Len(points) >= 8

(* C8  containsPoint(p) is true exactly when every face of this.faces has  *)
(* distanceToPoint(p) <= tolerance.                                        *)
C8_ContainsPointIff ==
  query.op = "containsPoint" =>
    (result.value <=> \A f \in Range(faces) : Within(f, query.point))

(* on a built hull a point is found outside by a face that is not the      *)
(* first of the list                                                       *)
C8_Witness ==
  /\ pc = "done"
  /\ query.op = "containsPoint"
  /\ result.value = FALSE
  /\ Within(faces[1], query.point)

(* C9  When no face rejects the ray intersectRay returns the point at      *)
(* tNear if that is finite and positive, else the point at tFar, else      *)
(* null: it never returns a point at an infinite parameter.                *)
C9_ResultRule ==
  (query.op = "intersectRay" /\ result.kind = "point") => result.t.den # 0

(* C10  Ray scenario on a built hull, origin strictly outside: aimed at a  *)
(* point of the hull the ray gets a point ray.at(t), t > 0 and finite,     *)
(* that lies on the plane of a face; aimed away from a point of the hull   *)
(* it gets null.                                                           *)
OnPlane(f, pt) == pt.w # 0 /\ 3 * Dot(F[f].normal, pt.x) - F[f].constant3 * pt.w = 0

AimedAt(ray) ==
  \E c \in RayTargets : containsPoint(Heap, tolerance, c)
                        /\ ray.direction = Sub(c, ray.origin)

AimedAway(ray) ==
  \E c \in RayTargets : containsPoint(Heap, tolerance, c)
                        /\ ray.direction = Sub(ray.origin, c)

C10_RayScenario ==
  (pc = "done" /\ query.op = "intersectRay"
     /\ ~ containsPoint(Heap, tolerance, query.ray.origin)) =>
    /\ AimedAt(query.ray) =>
         /\ result.kind = "point"
         /\ result.t.den > 0 /\ result.t.num > 0
         /\ result.point = at(query.ray, result.t)
         /\ \E f \in Range(faces) : OnPlane(f, result.point)
    /\ AimedAway(query.ray) => result.kind = "null"

(* a ray from outside that enters the hull through a face that is not the  *)
(* first of the list *)
C10_Witness ==
  /\ pc = "done" /\ cycles >= 1
  /\ query.op = "intersectRay"
  /\ ~ containsPoint(Heap, tolerance, query.ray.origin)
  /\ AimedAt(query.ray)
  /\ result.kind = "point"
  /\ ~ OnPlane(faces[1], result.point)

(* C11  Idempotence: every setFromPoints call of one instance with the     *)
(* same point sequence ends the same way, with the same number of faces    *)
(* and the same set of planes (unit normal, constant).                     *)
C11_Idempotence ==
  \A i, j \in 1..Len(builds) : builds[i].points = builds[j].points => builds[i] = builds[j]

(* a hull with an insertion cycle has been built a second time *)
C11_Witness ==
  /\ pc = "done" /\ cycles >= 1
  /\ Len(builds) = 2
  /\ builds[2].error = "none" /\ builds[2].count >= 6
  /\ builds[1].points = builds[2].points

(* C12  Cube scenario: the 8 corners of an axis-aligned cube, in whatever  *)
(* order, give a final mesh of 12 triangles, 8 vertices and 18 edges.      *)
IsCube(pts) == Len(pts) = 8 /\ Range(pts) = Range(Cube)

C12_CubeScenario ==
  (pc = "done" /\ IsCube(points)) =>
    /\ EulerF = 12 /\ EulerV = 8 /\ EulerE = 18
    /\ \A f \in Range(faces) : Cardinality(EdgesOf(f)) = 3
    /\ { vertices[v].point : v \in HullVertices } = Range(Cube)

(* the cube built from an order that is not the listed one *)
C12_Witness ==
  /\ pc = "done" /\ IsCube(points)
  /\ points[1] # Cube[1] /\ points[8] = Cube[8]
  /\ cycles = 4

(* C13  Tetrahedron scenario: exactly 4 points, not coplanar, give 4       *)
(* faces, 4 vertices and 6 edges; the assigned ledger is empty after the   *)
(* initial simplex and no insertion cycle runs.                            *)
IsTetrahedron(pts) ==
  Len(pts) = 4 /\ planeDistance(pts[1], pts[2], pts[3], pts[4]) # 0

C13_TetrahedronScenario ==
  (pc # "idle" /\ IsTetrahedron(points)) =>
    /\ pc \in {"compute", "loop", "done"}
    /\ cycles = 0
    /\ pc = "loop" => (assigned.head = Null /\ Len(faces) = 4)
    /\ pc = "done" => (EulerF = 4 /\ EulerV = 4 /\ EulerE = 6)

(* the tetrahedron is built *)
C13_Witness ==
  /\ pc = "done" /\ IsTetrahedron(points)
  /\ EulerF = 4 /\ Len(builds) = 1

(* C14  Duplicate-insensitivity: a point given more than once that lies    *)
(* strictly inside the hull of the cloud is never the eye vertex, is in no *)
(* outside set of a new face when a cycle ends, and the builds of the      *)
(* cloud with and without such points end with the same number of faces.   *)
RECURSIVE ChainSet(_)
ChainSet(v) == IF v = Null THEN {} ELSE {v} \cup ChainSet(vertices[v].next)

(* the vertices of the assigned ledger: the outside sets of all faces *)
AssignedSet == ChainSet(assigned.head)

SameFaceCount ==
  \A i, j \in 1..Len(builds) :
    (builds[i].error = "none" /\ builds[j].error = "none") =>
      builds[i].count = builds[j].count

C14_DuplicateInsensitive ==
  /\ \A v \in InteriorDuplicates(points) :
       /\ pc \in {"horizon", "newfaces", "resolve"} => eye # v
       /\ (pc = "loop" /\ cycles >= 1) =>
            ~ (v \in AssignedSet /\ vertices[v].face \in Range(newFaces))
  /\ SameFaceCount

(* C14, as the code has it: such a point is in no outside set and is no    *)
(* corner of a face when the build returns, and the builds of the cloud    *)
(* with and without such points end with the same number of faces and the  *)
(* same planes.                                                            *)
C14_DuplicatesEndInterior ==
  /\ pc = "done" =>
       \A v \in InteriorDuplicates(points) :
         v \notin AssignedSet /\ v \notin HullVertices
  /\ SameFaceCount
  /\ \A i, j \in 1..Len(builds) : builds[i].planes = builds[j].planes

(* a cloud with interior duplicates and the cloud without them are built *)
C14_Witness ==
  /\ pc = "done" /\ Len(builds) = 2
  /\ InteriorDuplicates(builds[1].points) # {}
  /\ Len(builds[2].points) < Len(builds[1].points)
  /\ builds[2].count >= 6


(* C15  Closed 2-manifold: after the initial simplex and after every       *)
(* insertion cycle, the twin of every half-edge e of a Visible face is an  *)
(* edge of another face, that face is Visible, and the twin runs along the *)
(* same physical edge the other way: e.twin.head = e.tail and              *)
(* e.twin.tail = e.head.                                                   *)
OppositeTwin(e) ==
  /\ E[e].twin # Null
  /\ E[E[e].twin].face # E[e].face
  /\ F[E[E[e].twin].face].mark = Visible
  /\ head(Heap, E[e].twin) = tail(Heap, e)
  /\ tail(Heap, E[e].twin) = head(Heap, e)

C15_ClosedManifold ==
  pc \in {"loop", "done"} =>
    \A f \in Range(faces) : F[f].mark = Visible => \A e \in EdgesOf(f) : OppositeTwin(e)

(* the mesh after a cycle that deleted a face and joined a new face to a   *)
(* face that was there before the cycle                                    *)
C15_Witness ==
  /\ pc = "loop"
  /\ cycles >= 1
  /\ \E f \in Range(faces) : F[f].mark = Deleted
  /\ \E f \in Range(newFaces) : \E e \in EdgesOf(f) :
       /\ E[e].twin # Null
       /\ E[E[e].twin].face \notin Range(newFaces)
       /\ OppositeTwin(e)


(* C16  Horizon is a closed cycle: the horizon list computeHorizon hands   *)
(* to addNewFaces is not empty and, in recorded order, the head of each    *)
(* edge is the tail of the next one, the last one leading back to the      *)
(* first; no vertex is passed twice, so the edges are one closed loop.     *)
NextInHorizon(i) == horizon[(i % Len(horizon)) + 1]

C16_HorizonCycle ==
  pc = "newfaces" =>
    /\ Len(horizon) >= 1
    /\ \A i \in 1..Len(horizon) : head(Heap, horizon[i]) = tail(Heap, NextInHorizon(i))
    /\ \A i, j \in 1..Len(horizon) :
         head(Heap, horizon[i]) = head(Heap, horizon[j]) => i = j

(* a horizon of four edges, gathered by nested calls over three faces or   *)
(* more                                                                    *)
C16_Witness ==
  /\ pc = "newfaces"
  /\ Len(horizon) >= 4
  /\ Cardinality({ E[e].face : e \in Range(horizon) }) >= 3
  /\ head(Heap, horizon[Len(horizon)]) = tail(Heap, horizon[1])


(* C17  Horizon separates visible from invisible: in an insertion cycle a  *)
(* face is marked Deleted only if it is the eye vertex's face, or it was   *)
(* Visible, the eye point is farther than tolerance from it, and it is     *)
(* entered across a twin edge from a face deleted in the same cycle (the   *)
(* face of the calling activation); every edge recorded in the horizon is  *)
(* an edge of a face deleted in this cycle, and its twin is an edge of a   *)
(* face that stays Visible and is within tolerance of the eye point.       *)
TopFrame == stack[Len(stack)]

MarkedFor(f) ==
  /\ pc = "horizon"
  /\ TopFrame.at = "enter"
  /\ TopFrame.face = f
  /\ IF Len(stack) = 1
     THEN TopFrame.crossEdge = Null /\ vertices[eye].face = f
     ELSE /\ ~ Within(f, vertices[eye].point)
          /\ E[TopFrame.crossEdge].face = f
          /\ E[E[TopFrame.crossEdge].twin].face = stack[Len(stack) - 1].face
          /\ F[stack[Len(stack) - 1].face].mark = Deleted

MarkStep ==
  pc \in Computing =>
    \A f \in 1..Len(F) : (F[f].mark = Visible /\ F'[f].mark = Deleted) => MarkedFor(f)

RecordStep ==
  (horizon' # horizon /\ horizon' # <<>>) =>
    /\ pc = "horizon"
    /\ horizon' = Append(horizon, TopFrame.edge)
    /\ E[TopFrame.edge].face = TopFrame.face
    /\ F[TopFrame.face].mark = Deleted

Separates(e) ==
  /\ F[E[e].face].mark = Deleted
  /\ F[E[E[e].twin].face].mark = Visible
  /\ Within(E[E[e].twin].face, vertices[eye].point)

HorizonSeparates ==
  pc \in {"horizon", "newfaces", "resolve"} => \A e \in Range(horizon) : Separates(e)

C17_HorizonSeparates == [][MarkStep /\ RecordStep /\ HorizonSeparates']_vars

(* a nested activation that has just marked its face, with a horizon edge  *)
(* already recorded                                                        *)
C17_Witness ==
  /\ pc = "horizon"
  /\ Len(stack) >= 3
  /\ TopFrame.at = "body"
  /\ F[TopFrame.face].mark = Deleted
  /\ ~ Within(TopFrame.face, vertices[eye].point)
  /\ Len(horizon) >= 1


(* C18  New-face fan: addNewFaces makes one new face per horizon edge;     *)
(* face i has the corners (eye vertex, tail(h[i]), head(h[i])); its edge   *)
(* opposite the eye vertex is the twin of the former twin of h[i]; its     *)
(* side edges are the twins of side edges of the faces before and after it *)
(* in the fan, the last face closing the loop with the first.              *)
FanBefore(i) == newFaces[((i + Len(newFaces) - 2) % Len(newFaces)) + 1]
FanAfter(i) == newFaces[(i % Len(newFaces)) + 1]

FanFace(i) ==
  LET f == newFaces[i]
      h == horizon[i]
      e0 == getEdge(Heap, f, 0)
      e1 == getEdge(Heap, f, 1)
      e2 == getEdge(Heap, f, 2)
  IN  /\ f = Len(F) - Len(horizon) + i
      /\ faces[Len(faces) - Len(horizon) + i] = f
      /\ Cardinality(EdgesOf(f)) = 3
      /\ << E[e0].vertex, E[e1].vertex, E[e2].vertex >> = << eye, tail(Heap, h), head(Heap, h) >>
      /\ E[e2].twin = E[h].twin
      /\ E[E[h].twin].twin = e2
      /\ E[e1].twin = getEdge(Heap, FanBefore(i), 0)
      /\ E[getEdge(Heap, FanBefore(i), 0)].twin = e1
      /\ E[e0].twin = getEdge(Heap, FanAfter(i), 1)
      /\ E[getEdge(Heap, FanAfter(i), 1)].twin = e0

C18_NewFaceFan ==
  pc = "resolve" =>
    /\ Len(newFaces) = Len(horizon)
    /\ \A i \in 1..Len(newFaces) : FanFace(i)

(* a fan of four faces made in a cycle after the first *)
C18_Witness ==
  /\ pc = "resolve"
  /\ cycles >= 1
  /\ Len(horizon) = 4
  /\ Len(newFaces) = 4
  /\ FanBefore(1) = newFaces[4]
  /\ E[getEdge(Heap, newFaces[1], 1)].twin = getEdge(Heap, newFaces[4], 0)


(* C19  Face lifecycle: the mark of a face only ever changes from Visible  *)
(* to Deleted and a Deleted face stays Deleted; computeHorizon is entered  *)
(* at most once per face over the build, that is, only for a face that is  *)
(* Visible, which the entry marks Deleted; and a Deleted face has no       *)
(* outside vertices and is the face of no vertex of the assigned list.     *)
MarkOnlyDeleted ==
  \A f \in 1..Len(F) :
    F'[f].mark # F[f].mark => (F[f].mark = Visible /\ F'[f].mark = Deleted)

EnteredOnce ==
  (pc = "horizon" /\ TopFrame.at = "enter") =>
    /\ F[TopFrame.face].mark = Visible
    /\ F'[TopFrame.face].mark = Deleted
    /\ \A k \in 1..(Len(stack) - 1) : stack[k].face # TopFrame.face

DeletedHasNoOutside ==
  \A f \in 1..Len(F) :
    F[f].mark = Deleted =>
      /\ F[f].outside = Null
      /\ \A v \in AssignedSet : vertices[v].face # f

C19_FaceLifecycle == [][MarkOnlyDeleted /\ EnteredOnce /\ DeletedHasNoOutside']_vars

(* a later cycle gives orphaned vertices to new faces while faces deleted  *)
(* in earlier cycles are still in the face list                            *)
C19_Witness ==
  /\ pc = "loop"
  /\ cycles >= 2
  /\ AssignedSet # {}
  /\ Cardinality({ f \in Range(faces) : F[f].mark = Deleted }) >= 3
  /\ \E v \in AssignedSet : vertices[v].face \in Range(newFaces)


(* C20  Vertex exclusivity: between ledger operations, and after every     *)
(* insertion cycle, each vertex is in the outside set of at most one face, *)
(* and no vertex of the assigned list is reachable from unassigned.head.   *)
RECURSIVE OutsideRun(_, _)
OutsideRun(f, v) ==
  IF v = Null \/ vertices[v].face # f
  THEN {}
  ELSE {v} \cup OutsideRun(f, vertices[v].next)

OutsideSet(f) == OutsideRun(f, F[f].outside)

UnassignedSet == ChainSet(unassigned.head)

OneOutsideSet ==
  \A f, g \in Range(faces) : f # g => OutsideSet(f) \cap OutsideSet(g) = {}

C20_VertexExclusive ==
  pc \in {"loop", "horizon", "newfaces", "resolve"} =>
    /\ OneOutsideSet
    /\ AssignedSet \cap UnassignedSet = {}

(* the first half alone: the outside sets of two faces never share a vertex *)
OutsideSetsDisjoint ==
  pc \in {"loop", "horizon", "newfaces", "resolve"} => OneOutsideSet


(* C21  Assigned-ledger shape: after every addVertexToFace,                *)
(* removeVertexFromFace and removeAllVerticesFromFace the assigned list is *)
(* a well-formed doubly-linked list (head.prev and tail.next null, next    *)
(* and prev mutually inverse), the vertices of one face form one           *)
(* contiguous run, face.outside is the first vertex of the run of its face *)
(* and is null exactly when the face has no assigned vertex.               *)
RECURSIVE ChainSeq(_, _, _)
ChainSeq(H, v, k) ==
  IF v = Null \/ k = 0 THEN <<>> ELSE << v >> \o ChainSeq(H, H.vertices[v].next, k - 1)

AssignedSeq(H) == ChainSeq(H, H.assigned.head, Len(H.vertices) + 1)

LinkedList(H, s) ==
  /\ (H.assigned.head = Null) = (H.assigned.tail = Null)
  /\ \A i, j \in 1..Len(s) : s[i] = s[j] => i = j
  /\ Len(s) >= 1 =>
       /\ H.vertices[s[1]].prev = Null
       /\ s[Len(s)] = H.assigned.tail
       /\ H.vertices[s[Len(s)]].next = Null
  /\ \A i \in 1..(Len(s) - 1) : H.vertices[s[i + 1]].prev = s[i]

FaceRuns(H, s) ==
  /\ \A i, j, k \in 1..Len(s) :
       (i < j /\ j < k /\ H.vertices[s[i]].face = H.vertices[s[k]].face)
         => H.vertices[s[j]].face = H.vertices[s[i]].face
  /\ \A i \in 1..Len(s) :
       /\ H.vertices[s[i]].face \in Range(H.faces)
       /\ (i = 1 \/ H.vertices[s[i - 1]].face # H.vertices[s[i]].face)
            = (H.F[H.vertices[s[i]].face].outside = s[i])
  /\ \A f \in Range(H.faces) :
       (H.F[f].outside = Null) = (\A i \in 1..Len(s) : H.vertices[s[i]].face # f)

LedgerShape(H) == LinkedList(H, AssignedSeq(H)) /\ FaceRuns(H, AssignedSeq(H))

(* the heaps after each addVertexToFace of resolveUnassignedPoints *)
RECURSIVE ResolveHeaps(_, _, _, _)
ResolveHeaps(G, tol, nf, vertex) ==
  IF vertex = Null
  THEN {}
  ELSE IF maxFaceOf(G, tol, nf, vertex) # Null
       THEN { addVertexToFace(G, vertex, maxFaceOf(G, tol, nf, vertex)) }
            \cup ResolveHeaps(addVertexToFace(G, vertex, maxFaceOf(G, tol, nf, vertex)),
                              tol, nf, G.vertices[vertex].next)
       ELSE ResolveHeaps(G, tol, nf, G.vertices[vertex].next)

(* the heaps after each addVertexToFace of computeInitialHull, s the simplex *)
RECURSIVE InitialHeaps(_, _, _, _)
InitialHeaps(G, tol, s, i) ==
  IF i > Len(G.vertices)
  THEN {}
  ELSE IF i \notin Range(s) /\ initialFace(G, tol, i) # Null
       THEN { addVertexToFace(G, i, initialFace(G, tol, i)) }
            \cup InitialHeaps(addVertexToFace(G, i, initialFace(G, tol, i)), tol, s, i + 1)
       ELSE InitialHeaps(G, tol, s, i + 1)

SimplexHeaps(r) ==
  IF r.error = "none"
  THEN InitialHeaps(simplexFaces(Heap, r.simplex[1], r.simplex[2], r.simplex[3], r.simplex[4]),
                    r.tolerance, r.simplex, 1)
  ELSE {}

C21_LedgerShape ==
  /\ pc \in {"loop", "horizon", "newfaces", "resolve"} => LedgerShape(Heap)
  /\ pc = "resolve" =>
       \A G \in ResolveHeaps(Heap, tolerance, newFaces, unassigned.head) : LedgerShape(G)
  /\ pc = "compute" =>
       \A G \in SimplexHeaps(computeInitialHull(Heap, tolerance)) : LedgerShape(G)

(* a face is given a second vertex while another face has its run after it *)
C21_Witness ==
  /\ pc = "loop"
  /\ Len(AssignedSeq(Heap)) >= 3
  /\ \E i \in 1..(Len(AssignedSeq(Heap)) - 2) :
       /\ vertices[AssignedSeq(Heap)[i]].face = vertices[AssignedSeq(Heap)[i + 1]].face
       /\ vertices[AssignedSeq(Heap)[i]].face # vertices[AssignedSeq(Heap)[i + 2]].face


(* C22  Reassignment target: a vertex that resolveUnassignedPoints gives   *)
(* to a face is given to the new face with the largest distance to it      *)
(* among the new faces whose distance exceeds tolerance.                   *)
DistanceTo(f, v) == distanceToPoint(F[f], vertices[v].point)

(* the vertices the last resolveUnassignedPoints gave to new faces *)
Reassigned == { v \in AssignedSet : vertices[v].face \in Range(newFaces) }

C22_LargestDistance ==
  (pc = "loop" /\ cycles >= 1) =>
    \A v \in Reassigned :
      /\ ~ Within(vertices[v].face, vertices[v].point)
      /\ \A g \in Range(newFaces) :
           ~ DistGt(DistanceTo(g, v), DistanceTo(vertices[v].face, v))

(* C22, as the code has it: the scan of the new faces stops at the first   *)
(* face that brings the largest distance so far above 1000 x tolerance;    *)
(* the vertex goes to the face with the largest distance (first found on   *)
(* ties) among the faces scanned until then, which is the largest of all   *)
(* only if the scan ran to the end.                                        *)
StopsScan(f, v) == GtTolerance(DistanceTo(f, v), 1000, tolerance)

ScannedTarget(v, k) ==
  /\ ~ Within(newFaces[k], vertices[v].point)
  /\ \A j \in 1..(k - 1) :
       /\ ~ StopsScan(newFaces[j], v)
       /\ DistGt(DistanceTo(newFaces[k], v), DistanceTo(newFaces[j], v))
  /\ \/ StopsScan(newFaces[k], v)
     \/ \A j \in (k + 1)..Len(newFaces) :
          ~ DistGt(DistanceTo(newFaces[j], v), DistanceTo(newFaces[k], v))

C22_LargestScanned ==
  (pc = "loop" /\ cycles >= 1) =>
    \A v \in Reassigned :
      \E k \in 1..Len(newFaces) : newFaces[k] = vertices[v].face /\ ScannedTarget(v, k)

(* a vertex was given to a new face although a later new face is farther   *)
(* from it                                                                 *)
C22_Witness ==
  /\ pc = "loop"
  /\ cycles >= 1
  /\ \E v \in Reassigned : \E k, j \in 1..Len(newFaces) :
       /\ newFaces[k] = vertices[v].face
       /\ k < j
       /\ DistGt(DistanceTo(newFaces[j], v), DistanceTo(newFaces[k], v))


(* C23  Reassign-or-discard: a vertex orphaned in an insertion cycle ends  *)
(* the cycle in the outside set of a new face if and only if some new      *)
(* Visible face is farther than tolerance from it, and the face it gets is *)
(* farther than tolerance from it; a vertex that matches no new face is in *)
(* no outside set afterwards, and no vertex that has left the assigned and *)
(* unassigned lists is assigned or chosen as eye vertex in a later cycle.  *)
SeenByNewFace(v) ==
  \E f \in Range(newFaces) : F[f].mark = Visible /\ ~ Within(f, vertices[v].point)

(* the vertices still to be added: the assigned list, and during a cycle   *)
(* the vertices orphaned in it                                             *)
Pending ==
  IF pc \in {"horizon", "newfaces", "resolve"}
  THEN AssignedSet \cup UnassignedSet
  ELSE AssignedSet

ResolveStep ==
  (pc = "resolve" /\ pc' = "loop") =>
    \A v \in UnassignedSet :
      /\ (v \in AssignedSet') = SeenByNewFace(v)
      /\ v \in AssignedSet' =>
           \E g \in Range(newFaces) :
             /\ vertices'[v].face = g
             /\ ~ Within(g, vertices[v].point)
             /\ v \in OutsideSet(g)'

DiscardedStaysOut ==
  (pc \in {"loop", "horizon", "newfaces", "resolve"} /\ pc' # "done") =>
    /\ Pending' \subseteq Pending
    /\ eye' # eye => eye' \in AssignedSet

C23_ReassignOrDiscard == [][ResolveStep /\ DiscardedStaysOut]_vars

(* a cycle that orphaned several vertices has given one to a new face and  *)
(* discarded the first of them                                             *)
C23_Witness ==
  /\ pc = "loop"
  /\ cycles >= 1
  /\ unassigned.head # Null
  /\ unassigned.head \notin AssignedSet
  /\ Reassigned # {}


(* C24  Eye-vertex selection: while the assigned list is not empty,        *)
(* nextVertexToAdd returns a vertex of the outside set of the face of the  *)
(* first entry of the list, one at the largest distance from that face     *)
(* among the vertices of that set, the first of them in list order, and    *)
(* never a vertex of another face, however far from the hull that is.      *)
PlaceOf(v) == CHOOSE i \in 1..Len(AssignedSeq(Heap)) : AssignedSeq(Heap)[i] = v

FarthestOfFace(e, f) ==
  /\ e # Null
  /\ e \in OutsideSet(f)
  /\ \A w \in OutsideSet(f) :
       /\ ~ DistGt(DistanceTo(f, w), DistanceTo(f, e))
       /\ PlaceOf(w) < PlaceOf(e) => DistGt(DistanceTo(f, e), DistanceTo(f, w))

C24_EyeVertex ==
  (pc = "loop" /\ assigned.head # Null) =>
    FarthestOfFace(nextVertexToAdd(Heap), vertices[assigned.head].face)

(* the first face has two outside vertices, the farther of them is not the *)
(* first, and a vertex of another face is farther from its face than the   *)
(* eye vertex is from the first face                                       *)
C24_Witness ==
  /\ pc = "loop"
  /\ assigned.head # Null
  /\ nextVertexToAdd(Heap) # Null
  /\ nextVertexToAdd(Heap) # assigned.head
  /\ \E w \in AssignedSet :
       /\ vertices[w].face # vertices[assigned.head].face
       /\ DistGt(DistanceTo(vertices[w].face, w),
                 DistanceTo(vertices[assigned.head].face, nextVertexToAdd(Heap)))


(* C25  Assigned vertices see their face: at the start of every iteration  *)
(* of the loop of compute, the face of every vertex of the assigned list   *)
(* is a Visible face farther than tolerance from the vertex; so            *)
(* nextVertexToAdd returns undefined only when the assigned list is empty. *)
SeesItsFace(v) ==
  /\ vertices[v].face \in Range(faces)
  /\ F[vertices[v].face].mark = Visible
  /\ ~ Within(vertices[v].face, vertices[v].point)
  /\ DistSign(DistanceTo(vertices[v].face, v)) > 0

C25_AssignedSeeFace ==
  pc = "loop" =>
    /\ \A v \in AssignedSet : SeesItsFace(v)
    /\ (nextVertexToAdd(Heap) = Null) = (assigned.head = Null)

(* the loop starts an iteration after the first with vertices assigned to  *)
(* two faces or more, one of them made in the last cycle                   *)
C25_Witness ==
  /\ pc = "loop"
  /\ cycles >= 1
  /\ Cardinality({ vertices[v].face : v \in AssignedSet }) >= 2
  /\ \E v \in AssignedSet : vertices[v].face \notin Range(newFaces)
  /\ Reassigned # {}
  /\ nextVertexToAdd(Heap) # Null


(* C26  Finalizer: when the build returns, the face list holds exactly the *)
(* faces of the list that are Visible, in creation order, no Deleted face  *)
(* is left in it, and the assigned list, the unassigned list and newFaces  *)
(* are empty.                                                              *)
Returns == pc = "loop" /\ pc' = "done"

C26_Finalizer ==
  [][Returns =>
       /\ \A f \in Range(faces) : (f \in Range(faces')) = (F[f].mark = Visible)
       /\ Range(faces') \subseteq Range(faces)
       /\ \A i, j \in 1..Len(faces') : i < j => faces'[i] < faces'[j]
       /\ \A i \in 1..Len(faces') : F'[faces'[i]].mark = Visible
       /\ assigned' = [head |-> Null, tail |-> Null]
       /\ unassigned' = [head |-> Null, tail |-> Null]
       /\ newFaces' = <<>>]_vars

(* a build has returned after cycles that deleted the first face of the    *)
(* simplex and orphaned vertices                                           *)
C26_Witness ==
  /\ pc = "done"
  /\ Len(builds) = 1
  /\ cycles >= 2
  /\ Len(faces) >= 6
  /\ faces[1] > 1
  /\ F[1].mark = Deleted
  /\ assigned.head = Null
  /\ unassigned.head = Null
  /\ newFaces = <<>>


(* C27  Initial simplex orientation: for non-degenerate input, right after *)
(* the four faces of the simplex are made, the simplex vertex that is not  *)
(* a corner of a face is at a strictly negative distance from it, in both  *)
(* winding templates, and the 12 half-edges are 6 twin pairs, each joining *)
(* the same two vertices in opposite directions across two faces.          *)
CornersOf(f) == { E[e].vertex : e \in EdgesOf(f) }

NotCoplanar(vs) ==
  /\ Cardinality(vs) = 4
  /\ \A a, b, c, d \in vs :
       Cardinality({a, b, c, d}) = 4 =>
         planeDistance(vertices[a].point, vertices[b].point,
                       vertices[c].point, vertices[d].point) # 0

AfterSimplex == pc = "loop" /\ cycles = 0

C27_SimplexOrientation ==
  (AfterSimplex /\ NotCoplanar(HullVertices)) =>
    /\ Len(faces) = 4
    /\ \A f \in Range(faces) :
         /\ Cardinality(CornersOf(f)) = 3
         /\ \A v \in HullVertices \ CornersOf(f) : DistSign(DistanceTo(f, v)) < 0
    /\ Cardinality(FinalEdges) = 12
    /\ Cardinality({ {e, E[e].twin} : e \in FinalEdges }) = 6
    /\ \A e \in FinalEdges :
         /\ E[e].twin \in FinalEdges
         /\ E[E[e].twin].twin = e
         /\ E[E[e].twin].face # E[e].face
         /\ head(Heap, E[e].twin) = tail(Heap, e)
         /\ tail(Heap, E[e].twin) = head(Heap, e)

(* the fourth simplex vertex in front of the plane of the first three *)
InFront(s) ==
  planeDistance(vertices[s[1]].point, vertices[s[2]].point,
                vertices[s[3]].point, vertices[s[4]].point) > 0

(* a simplex of the second winding template, with vertices left to add *)
C27_Witness ==
  /\ AfterSimplex
  /\ NotCoplanar(HullVertices)
  /\ InFront(computeInitialHull(Heap, tolerance).simplex)
  /\ assigned.head # Null


(* C28  Simplex vertex v2: computeInitialHull takes as v2 the vertex,      *)
(* other than v0 and v1, with the greatest squared distance from the       *)
(* infinite line through v0 and v1, the first found winning on ties.       *)
(* The squared distance of point from the line through v0 and v1, times    *)
(* the squared length of v1 - v0.                                          *)
lineDistanceSq(v0, v1, point) ==
  Dot(Sub(point, v0), Sub(point, v0)) * Dot(Sub(v1, v0), Sub(v1, v0))
    - Dot(Sub(v1, v0), Sub(point, v0)) * Dot(Sub(v1, v0), Sub(point, v0))

FirstFarthest(s, d(_, _, _)) ==
  \A i \in 1..Len(vertices) :
    (i # s[1] /\ i # s[2]) =>
      /\ d(vertices[s[1]].point, vertices[s[2]].point, vertices[i].point)
           <= d(vertices[s[1]].point, vertices[s[2]].point, vertices[s[3]].point)
      /\ i < s[3] =>
           d(vertices[s[1]].point, vertices[s[2]].point, vertices[i].point)
             < d(vertices[s[1]].point, vertices[s[2]].point, vertices[s[3]].point)

C28_FarthestFromLine ==
  AfterSimplex => FirstFarthest(computeInitialHull(Heap, tolerance).simplex, lineDistanceSq)

(* what the code computes: the distance from the segment between v0 and v1 *)
FarthestFromSegment ==
  AfterSimplex => FirstFarthest(computeInitialHull(Heap, tolerance).simplex, segmentDistanceSq)

(* C29  intersectRay rejection: intersectRay returns null when some face   *)
(* has the ray origin strictly outside its plane while the direction does  *)
(* not move toward the plane, and when the running interval becomes empty  *)
(* (tNear > tFar: a front face is crossed farther along the ray than a     *)
(* back face); in every other case it returns a point, not null.           *)
OriginSide(f, ray) == DistSign(distanceToPoint(F[f], ray.origin))

Turn(f, ray) == Dot(F[f].normal, ray.direction)

TurnedAway(f, ray) == OriginSide(f, ray) > 0 /\ Turn(f, ray) >= 0

(* the faces crossed at a positive parameter: in front they raise tNear,   *)
(* at the back they lower tFar                                             *)
FrontFace(f, ray) == OriginSide(f, ray) > 0 /\ Turn(f, ray) < 0

BackFace(f, ray) == OriginSide(f, ray) < 0 /\ Turn(f, ray) > 0

(* f is crossed farther along the ray than g *)
CrossedAfter(f, g, ray) ==
  Abs(distanceToPoint(F[f], ray.origin).num) * Abs(Turn(g, ray))
    > Abs(distanceToPoint(F[g], ray.origin).num) * Abs(Turn(f, ray))

EmptyInterval(ray) ==
  \E f, g \in Range(faces) :
    FrontFace(f, ray) /\ BackFace(g, ray) /\ CrossedAfter(f, g, ray)

C29_Rejection ==
  query.op = "intersectRay" =>
    (result.kind = "null" <=>
       \/ \E f \in Range(faces) : TurnedAway(f, query.ray)
       \/ EmptyInterval(query.ray))

(* a ray that no face turns away and that misses the hull: null by the     *)
(* empty interval alone                                                    *)
C29_Witness ==
  /\ pc = "done"
  /\ query.op = "intersectRay"
  /\ result.kind = "null"
  /\ \A f \in Range(faces) : ~ TurnedAway(f, query.ray)

(* C30  Render loop singleness: over any interleaving of start(), stop()   *)
(* and animation frames at most one renderCallback waits in the            *)
(* animation-frame callback list (so render() runs at most once a frame),  *)
(* and after stop() no render() happens until the next start().            *)
OneCallback == pending + running <= 1

OneRenderAFrame == rendered <= 1

Renders == rendered' = rendered + 1

Stopped == ~ renderLoop

C30_RenderLoopSingle ==
  [][(OneCallback /\ OneRenderAFrame)' /\ (Renders => ~ Stopped)]_vars

(* what holds: render() runs only between a start() and the next stop()    *)
NoRenderWhenStopped == [][Renders => ~ Stopped]_vars

=============================================================================
